---- MODULE Spec2Model ----
(***************************************************************************)
(* Chord inference of guess_chords.py: the pitch model (normalize_note,    *)
(* note_to_semitone, semitone_to_note), the chord catalog and the search   *)
(* of calculate_intervals, and the entry point guess_chord.                *)
(*                                                                         *)
(* A Python string is a sequence of one-character strings, so that         *)
(* note.split('(')[0] and the f-strings that build the result are computed *)
(* character by character.  A call either returns a string or ends in an   *)
(* uncaught exception.                                                     *)
(***************************************************************************)
EXTENDS Integers, Sequences, FiniteSets, TLC

VARIABLES notes, pc, cleaned_notes, normalized, converted, result

vars == <<notes, pc, cleaned_notes, normalized, converted, result>>

(***************************************************************************)
(* Bounds of the checked inputs.                                           *)
(***************************************************************************)
\* longest input list over the whole name alphabet
MaxLen == 3
\* most distinct pitch classes in an input list of convertible names
MaxChord == 5

(***************************************************************************)
(* String literals of the source.                                          *)
(***************************************************************************)
Unknown == <<"U", "n", "k", "n", "o", "w", "n">>
SingleNoteSuffix == <<" ", "(", "s", "i", "n", "g", "l", "e", " ", "n", "o", "t", "e", ")">>
PowerSuffix == <<" ", "5">>
NoFifthSuffix == <<" ", "(", "n", "o", " ", "f", "i", "f", "t", "h", ")">>
MinorNoFifthSuffix == <<" ", "M", "i", "n", "o", "r", " ", "(", "n", "o", " ", "f", "i", "f", "t", "h", ")">>
TypeError == <<"T", "y", "p", "e", "E", "r", "r", "o", "r">>
Space == <<" ">>

\* dict.get(key) of a missing key: Python's None, kept apart from 0..11
None == -1

(***************************************************************************)
(* Pitch model.                                                            *)
(***************************************************************************)
enharmonic_map ==
    (<<"A", "#">> :> <<"B", "b">>) @@ (<<"B", "b">> :> <<"A", "#">>) @@
    (<<"C", "#">> :> <<"D", "b">>) @@ (<<"D", "b">> :> <<"C", "#">>) @@
    (<<"D", "#">> :> <<"E", "b">>) @@ (<<"E", "b">> :> <<"D", "#">>) @@
    (<<"F", "#">> :> <<"G", "b">>) @@ (<<"G", "b">> :> <<"F", "#">>) @@
    (<<"G", "#">> :> <<"A", "b">>) @@ (<<"A", "b">> :> <<"G", "#">>)

\* enharmonic_map.get(note, note)
normalize_note(note) ==
    IF note \in DOMAIN enharmonic_map THEN enharmonic_map[note] ELSE note

semitone_map ==
    (<<"C">> :> 0) @@ (<<"C", "#">> :> 1) @@ (<<"D">> :> 2) @@
    (<<"D", "#">> :> 3) @@ (<<"E">> :> 4) @@ (<<"F">> :> 5) @@
    (<<"F", "#">> :> 6) @@ (<<"G">> :> 7) @@ (<<"G", "#">> :> 8) @@
    (<<"A">> :> 9) @@ (<<"A", "#">> :> 10) @@ (<<"B">> :> 11)

\* semitone_map.get(normalize_note(note))
note_to_semitone(note) ==
    LET n == normalize_note(note)
    IN  IF n \in DOMAIN semitone_map THEN semitone_map[n] ELSE None

\* the list `notes` of semitone_to_note
note_names ==
    << <<"C">>, <<"C", "#">>, <<"D">>, <<"D", "#">>, <<"E">>, <<"F">>,
       <<"F", "#">>, <<"G">>, <<"G", "#">>, <<"A">>, <<"A", "#">>, <<"B">> >>

\* notes[semitone % 12]
semitone_to_note(semitone) == note_names[(semitone % 12) + 1]

(***************************************************************************)
(* Chord catalog, in the dict's insertion order.                           *)
(***************************************************************************)
\* the catalog with the three extended entries declared before the sevenths
chord_intervals_extended_first ==
    << [chord_type |-> <<"M", "a", "j", "o", "r">>, pattern |-> <<0, 4, 7>>],
       [chord_type |-> <<"m", "i", "n", "o", "r">>, pattern |-> <<0, 3, 7>>],
       [chord_type |-> <<"D", "i", "m">>,           pattern |-> <<0, 3, 6>>],
       [chord_type |-> <<"A", "u", "g">>,           pattern |-> <<0, 4, 8>>],
       [chord_type |-> <<"9">>,                     pattern |-> <<0, 4, 7, 10, 14>>],
       [chord_type |-> <<"m", "9">>,                pattern |-> <<0, 3, 7, 10, 14>>],
       [chord_type |-> <<"M", "a", "j", "9">>,      pattern |-> <<0, 4, 7, 11, 14>>],
       [chord_type |-> <<"M", "a", "j", "7">>,      pattern |-> <<0, 4, 7, 11>>],
       [chord_type |-> <<"m", "7">>,                pattern |-> <<0, 3, 7, 10>>],
       [chord_type |-> <<"7">>,                     pattern |-> <<0, 4, 7, 10>>],
       [chord_type |-> <<"D", "i", "m", "7">>,      pattern |-> <<0, 3, 6, 9>>],
       [chord_type |-> <<"S", "u", "s", "2">>,      pattern |-> <<0, 2, 7>>],
       [chord_type |-> <<"S", "u", "s", "4">>,      pattern |-> <<0, 5, 7>>],
       [chord_type |-> <<"6">>,                     pattern |-> <<0, 4, 7, 9>>],
       [chord_type |-> <<"m", "6">>,                pattern |-> <<0, 3, 7, 9>>] >>

chord_intervals ==
    << [chord_type |-> <<"M", "a", "j", "o", "r">>, pattern |-> <<0, 4, 7>>],
       [chord_type |-> <<"m", "i", "n", "o", "r">>, pattern |-> <<0, 3, 7>>],
       [chord_type |-> <<"D", "i", "m">>,           pattern |-> <<0, 3, 6>>],
       [chord_type |-> <<"A", "u", "g">>,           pattern |-> <<0, 4, 8>>],
       [chord_type |-> <<"M", "a", "j", "7">>,      pattern |-> <<0, 4, 7, 11>>],
       [chord_type |-> <<"m", "7">>,                pattern |-> <<0, 3, 7, 10>>],
       [chord_type |-> <<"7">>,                     pattern |-> <<0, 4, 7, 10>>],
       [chord_type |-> <<"D", "i", "m", "7">>,      pattern |-> <<0, 3, 6, 9>>],
       [chord_type |-> <<"S", "u", "s", "2">>,      pattern |-> <<0, 2, 7>>],
       [chord_type |-> <<"S", "u", "s", "4">>,      pattern |-> <<0, 5, 7>>],
       [chord_type |-> <<"6">>,                     pattern |-> <<0, 4, 7, 9>>],
       [chord_type |-> <<"m", "6">>,                pattern |-> <<0, 3, 7, 9>>],
       [chord_type |-> <<"9">>,                     pattern |-> <<0, 4, 7, 10, 14>>],
       [chord_type |-> <<"m", "9">>,                pattern |-> <<0, 3, 7, 10, 14>>],
       [chord_type |-> <<"M", "a", "j", "9">>,      pattern |-> <<0, 4, 7, 11, 14>>] >>

(***************************************************************************)
(* Python built-ins used by calculate_intervals.                           *)
(***************************************************************************)
\* note.split('(')[0]: the text before the first '(' (all of it without one)
split_first(note) ==
    LET at == {i \in 1..Len(note) : note[i] = "("}
    IN  IF at = {} THEN note
        ELSE SubSeq(note, 1, (CHOOSE i \in at : \A j \in at : i <= j) - 1)

\* pattern[:n]
slice_to(pattern, n) ==
    SubSeq(pattern, 1, IF n < Len(pattern) THEN n ELSE Len(pattern))

\* insertion of x into an ascending list, before the first larger element
RECURSIVE insert_sorted(_, _)
insert_sorted(x, s) ==
    IF s = <<>> THEN <<x>>
    ELSE IF x < Head(s) THEN <<x>> \o s
    ELSE <<Head(s)>> \o insert_sorted(x, Tail(s))

\* sorted(list) of integers
RECURSIVE sorted(_)
sorted(s) ==
    IF s = <<>> THEN <<>> ELSE insert_sorted(Head(s), sorted(Tail(s)))

\* the elements of a set in some iteration order
RECURSIVE set_to_list(_)
set_to_list(S) ==
    IF S = {} THEN <<>>
    ELSE LET x == CHOOSE y \in S : TRUE
         IN  <<x>> \o set_to_list(S \ {x})

\* set(list)
list_to_set(s) == {s[i] : i \in 1..Len(s)}

\* sorted(set) compares None with an int as soon as the set holds both
sorted_raises(S) == None \in S /\ Cardinality(S) >= 2

(***************************************************************************)
(* How a call ends: a returned string, or an uncaught exception.           *)
(***************************************************************************)
Return(s) == [raised |-> FALSE, value |-> s]
Raise(e) == [raised |-> TRUE, value |-> e]

(***************************************************************************)
(* calculate_intervals.                                                    *)
(***************************************************************************)
\* cleaned_notes = [note.split('(')[0] for note in notes]
clean(p) == [i \in 1..Len(p) |-> split_first(p[i])]

\* note_to_semitone(note) for note in cleaned_notes
convert(cleaned) == [i \in 1..Len(cleaned) |-> note_to_semitone(cleaned[i])]

\* semitones = sorted(set(...)), when sorted does not raise
semitones_of(p) == sorted(set_to_list(list_to_set(convert(clean(p)))))

\* (s - root_semitone) raises TypeError when an operand is None
interval_raises(semitones, root) ==
    root = None \/ \E i \in 1..Len(semitones) : semitones[i] = None

\* intervals = sorted((s - root_semitone) % 12 for s in semitones)
intervals_of(semitones, root) ==
    sorted([i \in 1..Len(semitones) |-> (semitones[i] - root) % 12])

\* len(intervals) >= 3 and intervals == pattern[:len(intervals)]
pattern_matches(intervals, pattern) ==
    Len(intervals) >= 3 /\ intervals = slice_to(pattern, Len(intervals))

\* the loop without its early return: the last matching entry from j on wins
RECURSIVE first_pattern_last_hit(_, _)
first_pattern_last_hit(intervals, j) ==
    IF j > Len(chord_intervals) THEN 0
    ELSE LET later == first_pattern_last_hit(intervals, j + 1)
         IN  IF later # 0 THEN later
             ELSE IF pattern_matches(intervals, chord_intervals[j].pattern) THEN j
             ELSE 0

\* for chord_type, pattern in chord_intervals.items(): the index of the first
\* entry from j on that matches, 0 when the loop ends without one
RECURSIVE first_pattern(_, _)
first_pattern(intervals, j) ==
    IF j > Len(chord_intervals) THEN 0
    ELSE IF pattern_matches(intervals, chord_intervals[j].pattern) THEN j
    ELSE first_pattern(intervals, j + 1)

\* the special cases rooted at the upper of the two values
special_cases_upper_root(semitones) ==
    IF Len(semitones) = 2
    THEN LET interval == (semitones[1] - semitones[2]) % 12
             root_note == semitone_to_note(semitones[2])
         IN  IF interval = 7 THEN root_note \o PowerSuffix
             ELSE IF interval = 4 THEN root_note \o NoFifthSuffix
             ELSE IF interval = 3 THEN root_note \o MinorNoFifthSuffix
             ELSE Unknown
    ELSE Unknown

\* the string returned when no root matches
special_cases(semitones) ==
    IF Len(semitones) = 2
    THEN LET interval == (semitones[2] - semitones[1]) % 12
             root_note == semitone_to_note(semitones[1])
         IN  IF interval = 7 THEN root_note \o PowerSuffix
             ELSE IF interval = 4 THEN root_note \o NoFifthSuffix
             ELSE IF interval = 3 THEN root_note \o MinorNoFifthSuffix
             ELSE Unknown
    ELSE Unknown

\* the root loop over reversed(semitones): the highest value is tried first
RECURSIVE try_roots_descending(_, _)
try_roots_descending(semitones, k) ==
    IF k > Len(semitones) THEN Return(special_cases(semitones))
    ELSE LET root_semitone == semitones[Len(semitones) + 1 - k]
         IN  IF interval_raises(semitones, root_semitone) THEN Raise(TypeError)
             ELSE LET hit == first_pattern(intervals_of(semitones, root_semitone), 1)
                  IN  IF hit # 0
                      THEN Return(semitone_to_note(root_semitone) \o Space
                                  \o chord_intervals[hit].chord_type)
                      ELSE try_roots_descending(semitones, k + 1)

\* for root_semitone in semitones, from the k-th element on, then the
\* special cases
RECURSIVE try_roots(_, _)
try_roots(semitones, k) ==
    IF k > Len(semitones) THEN Return(special_cases(semitones))
    ELSE LET root_semitone == semitones[k]
         IN  IF interval_raises(semitones, root_semitone) THEN Raise(TypeError)
             ELSE LET hit == first_pattern(intervals_of(semitones, root_semitone), 1)
                  IN  IF hit # 0
                      THEN Return(semitone_to_note(root_semitone) \o Space
                                  \o chord_intervals[hit].chord_type)
                      ELSE try_roots(semitones, k + 1)

calculate_intervals(p) ==
    IF p = <<>> THEN Return(Unknown)
    ELSE IF sorted_raises(list_to_set(convert(clean(p)))) THEN Return(Unknown)
    ELSE try_roots(semitones_of(p), 1)

(***************************************************************************)
(* guess_chord.                                                            *)
(***************************************************************************)
guess_chord(p) ==
    IF p = <<>> THEN Return(Unknown)
    ELSE IF Len(p) = 1 THEN Return(p[1] \o SingleNoteSuffix)
    ELSE calculate_intervals(p)

(***************************************************************************)
(* Inputs: every list of at most MaxLen names over an alphabet of valid,   *)
(* annotated and unparseable names, and every ascending list of at most    *)
(* MaxChord distinct pitch classes in natural-or-flat spelling.            *)
(***************************************************************************)
Naturals7 == {<<"C">>, <<"D">>, <<"E">>, <<"F">>, <<"G">>, <<"A">>, <<"B">>}
Sharps == {<<"C", "#">>, <<"D", "#">>, <<"F", "#">>, <<"G", "#">>, <<"A", "#">>}
Flats == {<<"D", "b">>, <<"E", "b">>, <<"G", "b">>, <<"A", "b">>, <<"B", "b">>}
Annotated == {<<"G", "#", "(", "A", "b", ")">>, <<"B", "b", "(", "A", "#", ")">>}
Unparseable == {<<"Z", "9">>, <<>>}
Names == Naturals7 \cup Sharps \cup Flats \cup Annotated \cup Unparseable

FlatSpelling ==
    << <<"C">>, <<"D", "b">>, <<"D">>, <<"E", "b">>, <<"E">>, <<"F">>,
       <<"G", "b">>, <<"G">>, <<"A", "b">>, <<"A">>, <<"B", "b">>, <<"B">> >>

ShortSeqs == UNION {[1..n -> Names] : n \in 0..MaxLen}

ChordSeqs ==
    {[i \in 1..Cardinality(T) |-> FlatSpelling[sorted(set_to_list(T))[i] + 1]] :
        T \in {U \in SUBSET (0..11) : Cardinality(U) <= MaxChord}}

Inputs == ShortSeqs \cup ChordSeqs

(***************************************************************************)
(* One call of guess_chord on a list supplied by the caller.               *)
(***************************************************************************)
Init ==
    /\ notes \in Inputs
    /\ pc = "call"
    /\ cleaned_notes = <<>>
    /\ normalized = <<>>
    /\ converted = <<>>
    /\ result = <<>>

\* if not notes: return "Unknown"
GuessChordEmpty ==
    /\ pc = "call"
    /\ notes = <<>>
    /\ pc' = "returned"
    /\ result' = guess_chord(notes).value
    /\ UNCHANGED <<notes, cleaned_notes, normalized, converted>>

\* if len(notes) == 1: return f"{notes[0]} (single note)"
GuessChordSingle ==
    /\ pc = "call"
    /\ Len(notes) = 1
    /\ pc' = "returned"
    /\ result' = guess_chord(notes).value
    /\ UNCHANGED <<notes, cleaned_notes, normalized, converted>>

\* return calculate_intervals(notes)
GuessChordCalculate ==
    /\ pc = "call"
    /\ Len(notes) >= 2
    /\ cleaned_notes' = clean(notes)
    /\ normalized' = [i \in 1..Len(notes) |-> normalize_note(clean(notes)[i])]
    /\ converted' = convert(clean(notes))
    /\ pc' = IF guess_chord(notes).raised THEN "raised" ELSE "returned"
    /\ result' = guess_chord(notes).value
    /\ UNCHANGED notes

Next == GuessChordEmpty \/ GuessChordSingle \/ GuessChordCalculate

Spec == Init /\ [][Next]_vars

(***************************************************************************)
(* Vocabulary of the properties.                                           *)
(***************************************************************************)
\* the call has ended
Ended == pc \in {"returned", "raised"}

\* every name of p converts to a semitone value
AllConvert(p) == \A i \in 1..Len(p) : note_to_semitone(split_first(p[i])) # None

\* the semitone values the names of p convert to
PitchSet(p) == {note_to_semitone(split_first(p[i])) : i \in 1..Len(p)} \ {None}

\* the elements of a finite set of integers in ascending order
Ascending(T) ==
    [i \in 1..Cardinality(T) |->
        CHOOSE x \in T : Cardinality({y \in T : y < x}) = i - 1]

\* the interval signature of S relative to r
Signature(S, r) == Ascending({(x - r) % 12 : x \in S})

\* the first n entries of a list, all of it when it has fewer
Truncated(list, n) ==
    [i \in 1..(IF n < Len(list) THEN n ELSE Len(list)) |-> list[i]]

\* the catalog as the specification declares it
DeclaredCatalog ==
    << [label |-> <<"M", "a", "j", "o", "r">>, intervals |-> <<0, 4, 7>>],
       [label |-> <<"m", "i", "n", "o", "r">>, intervals |-> <<0, 3, 7>>],
       [label |-> <<"D", "i", "m">>,           intervals |-> <<0, 3, 6>>],
       [label |-> <<"A", "u", "g">>,           intervals |-> <<0, 4, 8>>],
       [label |-> <<"M", "a", "j", "7">>,      intervals |-> <<0, 4, 7, 11>>],
       [label |-> <<"m", "7">>,                intervals |-> <<0, 3, 7, 10>>],
       [label |-> <<"7">>,                     intervals |-> <<0, 4, 7, 10>>],
       [label |-> <<"D", "i", "m", "7">>,      intervals |-> <<0, 3, 6, 9>>],
       [label |-> <<"S", "u", "s", "2">>,      intervals |-> <<0, 2, 7>>],
       [label |-> <<"S", "u", "s", "4">>,      intervals |-> <<0, 5, 7>>],
       [label |-> <<"6">>,                     intervals |-> <<0, 4, 7, 9>>],
       [label |-> <<"m", "6">>,                intervals |-> <<0, 3, 7, 9>>],
       [label |-> <<"9">>,                     intervals |-> <<0, 4, 7, 10, 14>>],
       [label |-> <<"m", "9">>,                intervals |-> <<0, 3, 7, 10, 14>>],
       [label |-> <<"M", "a", "j", "9">>,      intervals |-> <<0, 4, 7, 11, 14>>] >>

\* the pair (root r, j-th declared entry) matches the set S
PairMatches(S, r, j) ==
    Truncated(DeclaredCatalog[j].intervals, Cardinality(S)) = Signature(S, r)

\* the label "<toName(r)> <j-th declared label>"
ChordName(r, j) == semitone_to_note(r) \o Space \o DeclaredCatalog[j].label

\* the result of the first-hit search over S: roots ascending, then entries
\* in declaration order
FirstHit(S) ==
    LET hits == {h \in S \X (1..Len(DeclaredCatalog)) : PairMatches(S, h[1], h[2])}
    IN  IF hits = {} THEN Unknown
        ELSE LET first == CHOOSE h \in hits : \A g \in hits :
                              h[1] < g[1] \/ (h[1] = g[1] /\ h[2] <= g[2])
             IN  ChordName(first[1], first[2])

(***************************************************************************)
(* C1: an input whose names all convert, to three or more distinct         *)
(* semitone values S, returns the name of the first pair (root, entry),    *)
(* roots ascending and entries in declaration order, whose interval list   *)
(* truncated to |S| equals the signature of S at that root, and "Unknown"  *)
(* when no pair matches.                                                   *)
(***************************************************************************)
C1_FirstHitWins ==
    (Ended /\ AllConvert(notes) /\ Cardinality(PitchSet(notes)) >= 3)
        => (pc = "returned" /\ result = FirstHit(PitchSet(notes)))

\* {C, E, G, A}: both (C, "6") and (A, "m7") match, and "C 6" is returned
C1_Witness ==
    /\ pc = "returned"
    /\ AllConvert(notes)
    /\ PitchSet(notes) = {0, 4, 7, 9}
    /\ PairMatches(PitchSet(notes), 0, 11)
    /\ PairMatches(PitchSet(notes), 9, 6)
    /\ result = <<"C", " ", "6">>

(***************************************************************************)
(* C8: an input whose names all convert, to exactly two distinct values    *)
(* a < b, is rooted at a only and decided by d = (b - a) mod 12: 7 gives   *)
(* "<a> 5", 4 gives "<a> (no fifth)", 3 gives "<a> Minor (no fifth)", any  *)
(* other d gives "Unknown"; no catalog entry is ever returned for it.      *)
(***************************************************************************)
C8_TwoValueFallback ==
    (Ended /\ AllConvert(notes) /\ Cardinality(PitchSet(notes)) = 2)
        => LET a == Ascending(PitchSet(notes))[1]
               b == Ascending(PitchSet(notes))[2]
               d == (b - a) % 12
           IN  /\ pc = "returned"
               /\ d = 7 => result = semitone_to_note(a) \o <<" ", "5">>
               /\ d = 4 => result = semitone_to_note(a)
                               \o <<" ", "(", "n", "o", " ", "f", "i", "f", "t", "h", ")">>
               /\ d = 3 => result = semitone_to_note(a)
                               \o <<" ", "M", "i", "n", "o", "r", " ", "(", "n", "o",
                                    " ", "f", "i", "f", "t", "h", ")">>
               /\ d \notin {3, 4, 7} => result = Unknown
               /\ \A r \in 0..11 : \A j \in 1..Len(DeclaredCatalog) :
                      result # ChordName(r, j)

\* {D, G}: d = 5 from D, although G to D is a fifth; the result is "Unknown"
C8_Witness ==
    /\ pc = "returned"
    /\ AllConvert(notes)
    /\ PitchSet(notes) = {2, 7}
    /\ result = Unknown

(***************************************************************************)
(* C9 as stated: no result names "9", "m9" or "Maj9"; a four-value         *)
(* signature [0,4,7,10], [0,3,7,10] or [0,4,7,11] at root r always yields  *)
(* "<r> 7", "<r> m7" or "<r> Maj7"; no five-value signature equals a       *)
(* catalog entry.                                                          *)
(***************************************************************************)
ExtendedLabels == {<<"9">>, <<"m", "9">>, <<"M", "a", "j", "9">>}

NeverExtended ==
    \A r \in 0..11 : \A l \in ExtendedLabels :
        result # semitone_to_note(r) \o Space \o l

NoFiveValueEntry ==
    Cardinality(PitchSet(notes)) = 5
        => \A r \in PitchSet(notes) : \A j \in 1..Len(chord_intervals) :
               chord_intervals[j].pattern # Signature(PitchSet(notes), r)

\* a set with signature sig at root r is named "<r> <label>"
SeventhAt(sig, label) ==
    \A r \in PitchSet(notes) :
        Signature(PitchSet(notes), r) = sig
            => result = semitone_to_note(r) \o Space \o label

C9_AsStated ==
    /\ Ended => NeverExtended
    /\ (Ended /\ AllConvert(notes))
        => /\ pc = "returned"
           /\ SeventhAt(<<0, 4, 7, 10>>, <<"7">>)
           /\ SeventhAt(<<0, 3, 7, 10>>, <<"m", "7">>)
           /\ SeventhAt(<<0, 4, 7, 11>>, <<"M", "a", "j", "7">>)
           /\ NoFiveValueEntry

(***************************************************************************)
(* C9 amended: as stated, except that a signature [0,3,7,10] at root r     *)
(* yields "<r> m7" only when (r + 3) mod 12 is above r; when it is below   *)
(* r (r is A, A# or B) that lower value is tried first and the set is      *)
(* named "<r + 3> 6".                                                      *)
(***************************************************************************)
MinorSeventhAt ==
    \A r \in PitchSet(notes) :
        Signature(PitchSet(notes), r) = <<0, 3, 7, 10>>
            => IF (r + 3) % 12 > r
               THEN result = semitone_to_note(r) \o <<" ", "m", "7">>
               ELSE result = semitone_to_note((r + 3) % 12) \o <<" ", "6">>

C9_ExtendedUnreachable ==
    /\ Ended => NeverExtended
    /\ (Ended /\ AllConvert(notes))
        => /\ pc = "returned"
           /\ SeventhAt(<<0, 4, 7, 10>>, <<"7">>)
           /\ MinorSeventhAt
           /\ SeventhAt(<<0, 4, 7, 11>>, <<"M", "a", "j", "7">>)
           /\ NoFiveValueEntry

\* {C, E, G, Bb}: the first four intervals of "9" too, and "C 7" is returned
C9_Witness ==
    /\ pc = "returned"
    /\ AllConvert(notes)
    /\ Signature(PitchSet(notes), 0) = <<0, 4, 7, 10>>
    /\ Truncated(chord_intervals[13].pattern, 4) = <<0, 4, 7, 10>>
    /\ result = <<"C", " ", "7">>

CanonicalNames ==
    << <<"C">>, <<"C", "#">>, <<"D">>, <<"D", "#">>, <<"E">>, <<"F">>,
       <<"F", "#">>, <<"G">>, <<"G", "#">>, <<"A">>, <<"A", "#">>, <<"B">> >>

Canonical == {CanonicalNames[i] : i \in 1..12}

FlatToSharp ==
    (<<"B", "b">> :> <<"A", "#">>) @@ (<<"D", "b">> :> <<"C", "#">>) @@
    (<<"E", "b">> :> <<"D", "#">>) @@ (<<"G", "b">> :> <<"F", "#">>) @@
    (<<"A", "b">> :> <<"G", "#">>)

\* the 12 canonical names and the 5 flat spellings
ValidNames == Canonical \cup DOMAIN FlatToSharp

\* the call's outcome, as guess_chord gives it
Outcome == [raised |-> pc = "raised", value |-> result]

(***************************************************************************)
(* C2 as stated: guess_chord gives the same result for every list with the *)
(* same set of names as the input, in any order and with any               *)
(* multiplicities, a single name against that name repeated included.      *)
(***************************************************************************)
SameNames(p) ==
    UNION {{q \in [1..n -> list_to_set(p)] : list_to_set(q) = list_to_set(p)} :
              n \in 1..MaxLen}

C2_AsStated ==
    Ended => \A q \in SameNames(notes) : guess_chord(q) = Outcome

(***************************************************************************)
(* C3 as stated: when some name of the input, stripped of its              *)
(* parenthetical suffix, is none of the 17 valid names, guess_chord        *)
(* returns "Unknown", whatever the other names and the length of the list. *)
(***************************************************************************)
C3_AsStated ==
    (Ended /\ \E i \in 1..Len(notes) : split_first(notes[i]) \notin ValidNames)
        => (pc = "returned" /\ result = Unknown)

(***************************************************************************)
(* C4 as stated: every call returns, and the string has one of the six     *)
(* forms; no call ends in an exception.                                    *)
(***************************************************************************)
EndsWith(str, suffix) ==
    /\ Len(str) >= Len(suffix)
    /\ SubSeq(str, Len(str) - Len(suffix) + 1, Len(str)) = suffix

HasResultForm(str) ==
    \/ str = <<"U", "n", "k", "n", "o", "w", "n">>
    \/ EndsWith(str, <<" ", "(", "s", "i", "n", "g", "l", "e", " ", "n", "o", "t", "e", ")">>)
    \/ \E r \in 1..12 :
          \/ \E j \in 1..Len(DeclaredCatalog) :
                 str = CanonicalNames[r] \o <<" ">> \o DeclaredCatalog[j].label
          \/ str = CanonicalNames[r] \o <<" ", "5">>
          \/ str = CanonicalNames[r] \o <<" ", "(", "n", "o", " ", "f", "i", "f", "t", "h", ")">>
          \/ str = CanonicalNames[r] \o <<" ", "M", "i", "n", "o", "r", " ", "(", "n", "o",
                                         " ", "f", "i", "f", "t", "h", ")">>

C4_AsStated == Ended => (pc = "returned" /\ HasResultForm(result))

(***************************************************************************)
(* C5 as stated: for every root r, the major triad {r, r+4, r+7} in        *)
(* canonical sharp spelling returns "<r> Major" and the minor triad        *)
(* {r, r+3, r+7} returns "<r> minor".                                      *)
(***************************************************************************)
TriadNames(r, third) ==
    {CanonicalNames[r + 1], CanonicalNames[((r + third) % 12) + 1],
     CanonicalNames[((r + 7) % 12) + 1]}

C5_AsStated ==
    (Ended /\ Len(notes) = 3)
        => \A r \in 0..11 :
               /\ list_to_set(notes) = TriadNames(r, 4)
                      => /\ pc = "returned"
                         /\ result = CanonicalNames[r + 1] \o <<" ", "M", "a", "j", "o", "r">>
               /\ list_to_set(notes) = TriadNames(r, 3)
                      => /\ pc = "returned"
                         /\ result = CanonicalNames[r + 1] \o <<" ", "m", "i", "n", "o", "r">>

(***************************************************************************)
(* C6 as stated: every canonical name converts to a semitone value in      *)
(* 0..11, and semitone_to_note of that value is the name again.            *)
(***************************************************************************)
C6_AsStated ==
    (Ended /\ Len(notes) >= 2)
        => \A i \in 1..Len(cleaned_notes) :
               cleaned_notes[i] \in Canonical
                   => /\ converted[i] \in 0..11
                      /\ semitone_to_note(converted[i]) = cleaned_notes[i]

(***************************************************************************)
(* C7 as stated: normalize_note maps each flat spelling to its sharp       *)
(* equivalent and returns every other string unchanged, so that a valid    *)
(* name always normalizes to a canonical sharp-or-natural name.            *)
(***************************************************************************)
C7_AsStated ==
    (Ended /\ Len(notes) >= 2)
        => \A i \in 1..Len(cleaned_notes) :
               /\ normalized[i] = IF cleaned_notes[i] \in DOMAIN FlatToSharp
                                  THEN FlatToSharp[cleaned_notes[i]]
                                  ELSE cleaned_notes[i]
               /\ cleaned_notes[i] \in ValidNames => normalized[i] \in Canonical

====
